---------------------------- MODULE Spec2Model ----------------------------
(***************************************************************************)
(* Model of nevada_scraper.py: the challenge-solving client                *)
(* (solve_captcha), the page extractor (parse_business_information), the   *)
(* acquisition orchestrator (scrape_nevada_entity) and the process entry   *)
(* point (main).                                                           *)
(*                                                                         *)
(* Text is modelled as a sequence of tokens: a token is a word, the        *)
(* whitespace token SP or the colon token COLON.  Substring tests of the   *)
(* source ('Entity Name' in label_text) are contiguous-subsequence tests   *)
(* on tokens.  The time stamp metadata.scraped_date is left out of the     *)
(* records: no operation of the program reads it.                          *)
(***************************************************************************)
EXTENDS Integers, Sequences, FiniteSets, TLC

(***************************************************************************)
(* Bounds of the model.                                                    *)
(***************************************************************************)
\* labels visited plus officer-table rows of a document of SpecParse
MaxDocSize ==
  2
\* largest number of cells of an officer-table row
MaxCells ==
  6

(***************************************************************************)
(* Program constants.                                                      *)
(***************************************************************************)
max_attempts ==
  120
\* len(cells) >= 5
MinOfficerCells ==
  5

SP == " "
COLON == ":"

(***************************************************************************)
(* Text helpers.                                                           *)
(***************************************************************************)
RECURSIVE LStrip(_)
LStrip(s) ==
  IF s # <<>> /\ Head(s) = SP THEN LStrip(Tail(s)) ELSE s

RECURSIVE RStrip(_)
RStrip(s) ==
  IF s # <<>> /\ s[Len(s)] = SP THEN RStrip(SubSeq(s, 1, Len(s) - 1)) ELSE s

\* element.get_text(strip=True) of an element holding one text node
GetText(raw) ==
  RStrip(LStrip(raw))

IsNotColon(t) ==
  t # COLON

\* label.get_text(strip=True).replace(':', '')
LabelText(raw) ==
  SelectSeq(GetText(raw), IsNotColon)

\* the Python test  pat in text
Contains(pat, text) ==
  \E i \in 1..(Len(text) - Len(pat) + 1) : SubSeq(text, i, i + Len(pat) - 1) = pat

(***************************************************************************)
(* Python values stored in the record: a string or None.                   *)
(***************************************************************************)
PyStr(s) ==
  [kind |-> "str", text |-> s]

PyNone ==
  [kind |-> "None", text |-> <<>>]

\* value if value else None
OrNone(value) ==
  IF value # <<>> THEN PyStr(value) ELSE PyNone

\* d[key] = v on a dict modelled as a function on its keys
DictSet(d, key, v) ==
  [k \in (DOMAIN d) \cup {key} |-> IF k = key THEN v ELSE d[k]]

EmptyDict ==
  [k \in {} |-> PyNone]

(***************************************************************************)
(* parse_business_information: the label rules.                            *)
(***************************************************************************)
L_EntityName == <<"Entity", SP, "Name">>
L_EntityNumber == <<"Entity", SP, "Number">>
L_EntityType == <<"Entity", SP, "Type">>
L_EntityStatus == <<"Entity", SP, "Status">>
L_FormationDate == <<"Formation", SP, "Date">>
L_NVBusinessID == <<"NV", SP, "Business", SP, "ID">>
L_TerminationDate == <<"Termination", SP, "Date">>
L_AnnualReport == <<"Annual", SP, "Report", SP, "Due", SP, "Date">>
L_ComplianceHold == <<"Compliance", SP, "Hold">>
L_AgentName == <<"Name", SP, "of", SP, "Individual", SP, "or", SP, "Legal", SP, "Entity">>
L_Status == <<"Status">>
L_CRAType == <<"CRA", SP, "Agent", SP, "Entity", SP, "Type">>
L_RegAgentType == <<"Registered", SP, "Agent", SP, "Type">>
L_Office == <<"Office", SP, "or", SP, "Position">>
L_Jurisdiction == <<"Jurisdiction">>
L_Street == <<"Street", SP, "Address">>
L_Mailing == <<"Mailing", SP, "Address">>

\* business_data as created at the top of parse_business_information
NewBusinessData ==
  [entity_information |-> EmptyDict,
   registered_agent |-> EmptyDict,
   officers |-> <<>>,
   metadata |-> [source |-> "Nevada Secretary of State", success |-> TRUE]]

SetEntity(bd, key, v) ==
  [bd EXCEPT !.entity_information = DictSet(@, key, v)]

SetAgentDropsOthers(bd, key, v) ==
  [bd EXCEPT !.registered_agent = DictSet(EmptyDict, key, v)]

SetAgent(bd, key, v) ==
  [bd EXCEPT !.registered_agent = DictSet(@, key, v)]

\* 'registered_agent' in business_data and 'name' in business_data['registered_agent']
HasAgentName(bd) ==
  "name" \in DOMAIN bd.registered_agent

BusinessIdUnsetAlways(bd) ==
  TRUE

\* 'nv_business_id' not in business_data['entity_information']
BusinessIdUnset(bd) ==
  "nv_business_id" \notin DOMAIN bd.entity_information

\* the if/elif chain applied to one label that has a value sibling
MapLabel(bd, label_text, value) ==
  IF Contains(L_EntityName, label_text) THEN SetEntity(bd, "entity_name", PyStr(value))
  ELSE IF Contains(L_EntityNumber, label_text) THEN SetEntity(bd, "entity_number", PyStr(value))
  ELSE IF Contains(L_EntityType, label_text) THEN SetEntity(bd, "entity_type", PyStr(value))
  ELSE IF Contains(L_EntityStatus, label_text) THEN SetEntity(bd, "entity_status", PyStr(value))
  ELSE IF Contains(L_FormationDate, label_text) THEN SetEntity(bd, "formation_date", PyStr(value))
  ELSE IF Contains(L_NVBusinessID, label_text) THEN
         IF BusinessIdUnset(bd)
           THEN SetEntity(bd, "nv_business_id", PyStr(value))
           ELSE bd
  ELSE IF Contains(L_TerminationDate, label_text) THEN SetEntity(bd, "termination_date", OrNone(value))
  ELSE IF Contains(L_AnnualReport, label_text) THEN SetEntity(bd, "annual_report_due_date", PyStr(value))
  ELSE IF Contains(L_ComplianceHold, label_text) THEN SetEntity(bd, "compliance_hold", OrNone(value))
  ELSE IF Contains(L_AgentName, label_text) THEN SetAgent(bd, "name", PyStr(value))
  ELSE IF Contains(L_Status, label_text) /\ HasAgentName(bd) THEN SetAgent(bd, "status", PyStr(value))
  ELSE IF Contains(L_CRAType, label_text) THEN SetAgent(bd, "cra_agent_entity_type", OrNone(value))
  ELSE IF Contains(L_RegAgentType, label_text) THEN SetAgent(bd, "registered_agent_type", PyStr(value))
  ELSE IF Contains(L_NVBusinessID, label_text) /\ HasAgentName(bd) THEN SetAgent(bd, "nv_business_id", PyStr(value))
  ELSE IF Contains(L_Office, label_text) THEN SetAgent(bd, "office_or_position", OrNone(value))
  ELSE IF Contains(L_Jurisdiction, label_text) THEN SetAgent(bd, "jurisdiction", OrNone(value))
  ELSE IF Contains(L_Street, label_text) THEN SetAgent(bd, "street_address", PyStr(value))
  ELSE IF Contains(L_Mailing, label_text) THEN SetAgent(bd, "mailing_address", OrNone(value))
  ELSE bd

\* the body of  for label in labels: e.sibling is whether
\* label.parent.find_next_sibling('div') exists, e.value its raw text
ProcessLabel(bd, e) ==
  IF e.sibling THEN MapLabel(bd, LabelText(e.label), GetText(e.value)) ELSE bd

RECURSIVE ProcessLabels(_, _)
ProcessLabels(bd, es) ==
  IF es = <<>> THEN bd ELSE ProcessLabels(ProcessLabel(bd, Head(es)), Tail(es))

(***************************************************************************)
(* parse_business_information: the officer table.                          *)
(***************************************************************************)
QualifiesMoreThan(cells) ==
  Len(cells) > MinOfficerCells

\* if len(cells) >= 5
Qualifies(cells) ==
  Len(cells) >= MinOfficerCells

Officer(cells) ==
  [title |-> GetText(cells[1]),
   name |-> GetText(cells[2]),
   address |-> GetText(cells[3]),
   last_updated |-> GetText(cells[4]),
   status |-> GetText(cells[5])]

\* the body of  for row in rows
ProcessRow(bd, cells) ==
  IF Qualifies(cells) THEN [bd EXCEPT !.officers = Append(@, Officer(cells))] ELSE bd

RECURSIVE ProcessRows(_, _)
ProcessRows(bd, rows) ==
  IF rows = <<>> THEN bd ELSE ProcessRows(ProcessRow(bd, Head(rows)), Tail(rows))

\* a table is [found, tbody, rows]: soup.find('table', ...) and
\* officer_table.find('tbody') may each find nothing
TableRows(table) ==
  IF table.found /\ table.tbody THEN table.rows ELSE <<>>

\* parse_business_information on a document [labels, table], with the parsing
\* library importable
ParseDocument(doc) ==
  ProcessRows(ProcessLabels(NewBusinessData, doc.labels), TableRows(doc.table))

(***************************************************************************)
(* State.                                                                  *)
(***************************************************************************)
VARIABLES
  pc,             \* position of the single thread of control
  envApiKey,      \* SOLVECAPTCHA_API_KEY in the environment, None if unset
  exitCode,       \* process exit status, NoExit while running
  artifacts,      \* records written to the output file
  echoed,         \* lines printed between (and including) the delimiters
  browser,        \* "none", "open" (inside the with block) or "closed"
  frame,          \* execution context of the browser: "top" or "iframe"
  calls,          \* the calls made on sb so far, in order
  sitekey,        \* value read from data-sitekey
  submits,        \* POSTs to SOLVE_URL
  polls,          \* GETs to RESULT_URL
  sleeps,         \* time.sleep(1) calls of the polling loop
  attempts,       \* the local variable attempts of solve_captcha
  intake,         \* the response to the POST
  lastPoll,       \* the response to the latest GET
  captcha_data,   \* what solve_captcha returned
  solveOutcome,   \* "none", "returned" or "raised"
  solveErr,       \* description of the exception solve_captcha raised
  chalErr,        \* description of the failure logged by the challenge block
  raised,         \* description of the exception caught at the top level
  result,         \* the record scrape_nevada_entity returned
  page,           \* the document: page source captured / part read so far
  business_data,  \* the record parse_business_information is building
  parsed          \* what parse_business_information returned

procVars == <<envApiKey, exitCode, artifacts, echoed>>
browserVars == <<browser, frame, calls>>
solveVars == <<sitekey, submits, polls, sleeps, attempts, intake, lastPoll,
               captcha_data, solveOutcome, solveErr>>
scrapeVars == <<chalErr, raised, result>>
parseVars == <<page, business_data, parsed>>
vars == <<pc, procVars, browserVars, solveVars, scrapeVars, parseVars>>

None == "None"
NoExit == "running"
NoResponse == [body |-> "none", hasStatus |-> FALSE, status |-> 0,
               hasRequest |-> FALSE, request |-> None,
               useragent |-> None, respKey |-> None]
NoTable == [found |-> FALSE, tbody |-> FALSE, rows |-> <<>>]
NoDocument == [labels |-> <<>>, table |-> NoTable]

\* the default of os.getenv('SOLVECAPTCHA_API_KEY', ...)
DefaultApiKey == "e8241ace650146ad502519d5ef2bf819"

\* API_KEY = os.getenv('SOLVECAPTCHA_API_KEY', "e8241ace...")
API_KEY ==
  IF envApiKey = None THEN DefaultApiKey ELSE envApiKey

\* FILE_NUMBER and REQUEST_ID as main reads them
file_number == "E10281132020-8"
request_id == "nevada-1"

(***************************************************************************)
(* Inputs.                                                                 *)
(***************************************************************************)
\* str(e) of the exceptions the browser capability raises
BrowserErrors == {"Element was not present after 10 seconds!", "Message: disconnected"}

\* a JSON body of the solving service
JsonBody(hasStatus, status, hasRequest, request, useragent, respKey) ==
  [body |-> "json", hasStatus |-> hasStatus, status |-> status,
   hasRequest |-> hasRequest, request |-> request,
   useragent |-> useragent, respKey |-> respKey]

\* a body response.json() cannot parse, and a request that raised
BadBodies ==
  {[NoResponse EXCEPT !.body = "garbage"], [NoResponse EXCEPT !.body = "neterror"]}

IntakeResponses ==
  { JsonBody(TRUE, 1, TRUE, "job7", None, None),
    JsonBody(TRUE, 1, FALSE, None, None, None),
    JsonBody(TRUE, 0, TRUE, "ERROR_WRONG_USER_KEY", None, None),
    JsonBody(FALSE, 0, FALSE, None, None, None) } \cup BadBodies

\* ready responses: each hint absent and present, the user agent also empty
ReadyResponses ==
  { JsonBody(TRUE, 1, TRUE, "tokA", None, None),
    JsonBody(TRUE, 1, TRUE, "tokA", "", "rk"),
    JsonBody(TRUE, 1, TRUE, "tokB", None, "rk"),
    JsonBody(TRUE, 1, TRUE, "tokB", "UA/1", "rk"),
    JsonBody(TRUE, 1, TRUE, "tokA", "UA/1", None) }

PollResponses ==
  ReadyResponses \cup
  { JsonBody(TRUE, 1, FALSE, None, None, None),
    JsonBody(TRUE, 0, TRUE, "CAPCHA_NOT_READY", None, None),
    JsonBody(TRUE, 2, FALSE, None, None, None),
    JsonBody(FALSE, 0, FALSE, None, None, None) } \cup BadBodies

\* cells of officer-table rows
Words == <<"c1", "c2", "c3", "c4", "c5", "c6", "c7", "c8", "c9">>

CellText(v, k) ==
  IF v = 1 THEN <<Words[k]>> ELSE <<SP, Words[k], SP, "x", SP>>

RowOf(n, v) ==
  [k \in 1..n |-> CellText(v, k)]

Rows ==
  { RowOf(n, v) : n \in 3..MaxCells, v \in 1..2 }

\* raw label texts: every rule's label as the site prints it, and labels
\* that need the normalisation or match several rules or none
RuleLabels ==
  { L_EntityName, L_EntityNumber, L_EntityType, L_EntityStatus, L_FormationDate,
    L_NVBusinessID, L_TerminationDate, L_AnnualReport, L_ComplianceHold,
    L_AgentName, L_Status, L_CRAType, L_RegAgentType, L_Office,
    L_Jurisdiction, L_Street, L_Mailing }

RawLabels ==
  { l \o <<COLON>> : l \in RuleLabels } \cup
  { <<SP, "Entity", COLON, SP, "Name", SP>>,
    <<"Agent", SP, "Status", COLON>>,
    <<"Jurisdiction", SP, "Status", COLON>>,
    <<"Other", COLON>> }

RawValues == { <<SP>>, <<"a">>, <<SP, "b", SP>> }

LabelEntries ==
  { [label |-> l, sibling |-> TRUE, value |-> v] : l \in RawLabels, v \in RawValues } \cup
  { [label |-> l \o <<COLON>>, sibling |-> FALSE, value |-> <<>>] :
      l \in {L_EntityName, L_NVBusinessID, L_Status} }

Entry(l, v) ==
  [label |-> l \o <<COLON>>, sibling |-> TRUE, value |-> v]

\* page sources the browser may return in Spec
Pages ==
  { NoDocument,
    [labels |-> <<Entry(<<"Other">>, <<"a">>)>>,
     table |-> [found |-> TRUE, tbody |-> TRUE, rows |-> <<RowOf(5, 1)>>]],
    [labels |-> <<Entry(L_EntityName, <<"a">>), Entry(L_EntityStatus, <<SP, "b", SP>>)>>,
     table |-> [found |-> TRUE, tbody |-> TRUE, rows |-> <<RowOf(5, 1), RowOf(4, 1), RowOf(6, 2)>>]],
    [labels |-> <<Entry(L_AgentName, <<"a">>), Entry(L_NVBusinessID, <<"a">>)>>,
     table |-> NoTable] }

(***************************************************************************)
(* Initial states.                                                         *)
(***************************************************************************)
InitCommon ==
  /\ exitCode = NoExit
  /\ artifacts = <<>>
  /\ echoed = <<>>
  /\ browser = "none"
  /\ frame = "top"
  /\ calls = <<>>
  /\ sitekey = None
  /\ submits = 0
  /\ polls = 0
  /\ sleeps = 0
  /\ attempts = 0
  /\ intake = NoResponse
  /\ lastPoll = NoResponse
  /\ captcha_data = PyNone
  /\ solveOutcome = "none"
  /\ solveErr = None
  /\ chalErr = None
  /\ raised = None
  /\ result = PyNone
  /\ page = NoDocument
  /\ business_data = PyNone
  /\ parsed = PyNone

\* the process at the entry of main
Init ==
  /\ pc = "main"
  /\ envApiKey \in {None, "", "key-1"}
  /\ InitCommon

(***************************************************************************)
(* scrape_nevada_entity.                                                   *)
(***************************************************************************)
\* one call on the browser capability
CallWith(op, arg, ok) ==
  calls' = Append(calls, [op |-> op, arg |-> arg, ok |-> ok,
                          frame |-> frame, browser |-> browser])

\* a call whose arguments are fixed selectors
Call(op, ok) ==
  CallWith(op, None, ok)

FailRecordNoError(msg) ==
  [entity_information |-> EmptyDict,
   registered_agent |-> EmptyDict,
   officers |-> <<>>,
   metadata |-> [source |-> "Nevada Secretary of State", success |-> FALSE,
                 error |-> "Unknown error"]]

\* the record built by the except clause of scrape_nevada_entity
FailRecord(msg) ==
  [entity_information |-> EmptyDict,
   registered_agent |-> EmptyDict,
   officers |-> <<>>,
   metadata |-> [source |-> "Nevada Secretary of State", success |-> FALSE,
                 error |-> msg]]

FatalKeepsBrowser(msg) ==
  /\ raised' = msg
  /\ result' = FailRecord(msg)
  /\ UNCHANGED browser
  /\ pc' = "scrape_returned"

\* an exception leaves the with block (the browser is released) and is
\* caught by  except Exception as e
Fatal(msg) ==
  /\ raised' = msg
  /\ result' = FailRecord(msg)
  /\ browser' = IF browser = "open" THEN "closed" ELSE browser
  /\ pc' = "scrape_returned"

ChallengeFailureFatal(msg) ==
  /\ chalErr' = msg
  /\ Fatal(msg)

\* an exception in the challenge block is caught by its except clauses and
\* logged; control continues at  # Perform the search
ChallengeFailure(msg) ==
  /\ chalErr' = msg
  /\ pc' = "click_input"
  /\ UNCHANGED <<raised, result, browser>>

\* with SB(...) as sb
Acquire ==
  /\ pc = "acquire"
  /\ \/ /\ browser' = "open"
        /\ pc' = "navigate"
        /\ UNCHANGED <<raised, result>>
     \/ \E msg \in BrowserErrors : Fatal(msg)
  /\ UNCHANGED <<procVars, frame, calls, solveVars, chalErr, parseVars>>

\* sb.activate_cdp_mode(NEVADA_URL, ...)
Navigate ==
  /\ pc = "navigate"
  /\ \/ /\ Call("activate_cdp_mode", TRUE)
        /\ pc' = "probe"
        /\ UNCHANGED <<raised, result, browser>>
     \/ \E msg \in BrowserErrors : Call("activate_cdp_mode", FALSE) /\ Fatal(msg)
  /\ UNCHANGED <<procVars, frame, solveVars, chalErr, parseVars>>

ProbeThenChallengeAnyway ==
  /\ pc = "probe"
  /\ \/ Call("probe_search_input", TRUE) /\ pc' \in {"click_input", "wait_iframe"}
     \/ Call("probe_search_input", FALSE) /\ pc' = "wait_iframe"
  /\ UNCHANGED <<procVars, browser, frame, solveVars, scrapeVars, parseVars>>

\* sb.wait_for_element_present(search input, timeout=5) under  try / except:
ProbeSearchInput ==
  /\ pc = "probe"
  /\ \/ Call("probe_search_input", TRUE) /\ pc' = "click_input"
     \/ Call("probe_search_input", FALSE) /\ pc' = "wait_iframe"
  /\ UNCHANGED <<procVars, browser, frame, solveVars, scrapeVars, parseVars>>

\* sb.wait_for_element_present('iframe#main-iframe')
WaitIframe ==
  /\ pc = "wait_iframe"
  /\ \/ /\ Call("wait_iframe", TRUE)
        /\ pc' = "switch_frame"
        /\ UNCHANGED <<scrapeVars, browser>>
     \/ \E msg \in BrowserErrors : Call("wait_iframe", FALSE) /\ ChallengeFailure(msg)
  /\ UNCHANGED <<procVars, frame, solveVars, parseVars>>

\* sb.switch_to_frame('iframe#main-iframe')
SwitchFrame ==
  /\ pc = "switch_frame"
  /\ \/ /\ Call("switch_to_frame", TRUE)
        /\ frame' = "iframe"
        /\ pc' = "read_sitekey"
        /\ UNCHANGED <<scrapeVars, browser>>
     \/ /\ \E msg \in BrowserErrors : Call("switch_to_frame", FALSE) /\ ChallengeFailure(msg)
        /\ UNCHANGED frame
  /\ UNCHANGED <<procVars, solveVars, parseVars>>

\* sitekey = sb.get_attribute(...);  if sitekey: ... else: print(...)
ReadSitekey ==
  /\ pc = "read_sitekey"
  /\ \/ /\ Call("get_attribute", TRUE)
        /\ sitekey' = "sk-1"
        /\ pc' = "solve_submit"
        /\ UNCHANGED <<scrapeVars, browser>>
     \/ /\ Call("get_attribute", TRUE)
        /\ sitekey' \in {None, ""}
        /\ ChallengeFailure("No captcha sitekey found in iframe")
     \/ /\ \E msg \in BrowserErrors : Call("get_attribute", FALSE) /\ ChallengeFailure(msg)
        /\ UNCHANGED sitekey
  /\ UNCHANGED <<procVars, frame, submits, polls, sleeps, attempts, intake, lastPoll,
                 captcha_data, solveOutcome, solveErr, parseVars>>

(***************************************************************************)
(* solve_captcha.                                                          *)
(***************************************************************************)
E_Transport == "HTTPSConnectionPool: Max retries exceeded"
E_Json == "Expecting value: line 1 column 1 (char 0)"
E_Key == "'request'"
E_Submit == "Failed to submit captcha"
E_Timeout == "Timeout waiting for captcha solution"

\* response_data.get('status') != 1 is false
StatusIsOne(resp) ==
  resp.hasStatus /\ resp.status = 1

AcceptsAnyStatus(resp) ==
  TRUE

\* the intake response lets solve_captcha go on to polling
IntakeAccepted(resp) ==
  StatusIsOne(resp)

\* the exception raised by lines 33-39 on an intake response, None if none
IntakeError(resp) ==
  IF resp.body = "neterror" THEN E_Transport
  ELSE IF resp.body = "garbage" THEN E_Json
  ELSE IF ~IntakeAccepted(resp) THEN E_Submit
  ELSE IF ~resp.hasRequest THEN E_Key
  ELSE None

\* the exception raised by lines 55-64 on a poll response, None if none
PollError(resp) ==
  IF resp.body = "neterror" THEN E_Transport
  ELSE IF resp.body = "garbage" THEN E_Json
  ELSE IF StatusIsOne(resp) /\ ~resp.hasRequest THEN E_Key
  ELSE None

SolutionFixedToken(resp) ==
  [token |-> "tokA", useragent |-> resp.useragent, respKey |-> resp.respKey]

\* the dict returned on a ready poll
Solution(resp) ==
  [token |-> resp.request, useragent |-> resp.useragent, respKey |-> resp.respKey]

LoopContinuesAlways(n) ==
  TRUE

LoopContinuesOneMore(n) ==
  n <= max_attempts

\* while attempts < max_attempts
LoopContinues(n) ==
  n < max_attempts

TruthyAlways(str) ==
  TRUE

\* if captcha_data.get('useragent')
Truthy(str) ==
  str # None /\ str # ""

\* solve_captcha raises: its except clause re-raises and the except clause
\* of the challenge block catches
SolveRaise(msg) ==
  /\ solveOutcome' = "raised"
  /\ solveErr' = msg
  /\ ChallengeFailure(msg)

\* requests.post(SOLVE_URL, ...) up to request_id = response_data['request']
SolveSubmit ==
  /\ pc = "solve_submit"
  /\ \E resp \in IntakeResponses :
       /\ intake' = resp
       /\ submits' = submits + 1
       /\ IF IntakeError(resp) # None
            THEN SolveRaise(IntakeError(resp))
            ELSE /\ pc' = "solve_loop"
                 /\ UNCHANGED <<solveOutcome, solveErr, scrapeVars, browser>>
  /\ UNCHANGED <<procVars, frame, calls, sitekey, polls, sleeps, attempts, lastPoll,
                 captcha_data, parseVars>>

\* the loop test, then time.sleep(1); the raise after the loop
SolveLoop ==
  /\ pc = "solve_loop"
  /\ IF LoopContinues(attempts)
       THEN /\ sleeps' = sleeps + 1
            /\ pc' = "solve_poll"
            /\ UNCHANGED <<solveOutcome, solveErr, scrapeVars, browser>>
       ELSE /\ SolveRaise(E_Timeout)
            /\ UNCHANGED sleeps
  /\ UNCHANGED <<procVars, frame, calls, sitekey, submits, polls, attempts, intake,
                 lastPoll, captcha_data, parseVars>>

\* requests.get(RESULT_URL, ...) up to the end of the loop body
SolvePoll ==
  /\ pc = "solve_poll"
  /\ \E resp \in PollResponses :
       /\ lastPoll' = resp
       /\ polls' = polls + 1
       /\ IF PollError(resp) # None
            THEN /\ SolveRaise(PollError(resp))
                 /\ UNCHANGED <<attempts, captcha_data>>
            ELSE IF StatusIsOne(resp)
              THEN /\ captcha_data' = Solution(resp)
                   /\ solveOutcome' = "returned"
                   /\ pc' = IF Truthy(resp.useragent) THEN "set_useragent" ELSE "inject"
                   /\ UNCHANGED <<attempts, solveErr, scrapeVars, browser>>
              ELSE /\ attempts' = attempts + 1
                   /\ pc' = "solve_loop"
                   /\ UNCHANGED <<captcha_data, solveOutcome, solveErr, scrapeVars, browser>>
  /\ UNCHANGED <<procVars, frame, calls, sitekey, submits, sleeps, intake, parseVars>>

(***************************************************************************)
(* scrape_nevada_entity, continued: injection, search, extraction.         *)
(***************************************************************************)
\* a browser call inside  try: ... except Exception as captcha_error
ChallengeCall(at, op, arg, next) ==
  /\ pc = at
  /\ \/ /\ CallWith(op, arg, TRUE)
        /\ pc' = next
        /\ UNCHANGED <<scrapeVars, browser>>
     \/ \E msg \in BrowserErrors : CallWith(op, arg, FALSE) /\ ChallengeFailure(msg)

\* sb.execute_script('navigator.userAgent = ...')
SetUserAgent ==
  /\ pc = "set_useragent"
  /\ ChallengeCall("set_useragent", "set_useragent", captcha_data.useragent, "inject")
  /\ UNCHANGED <<procVars, frame, solveVars, parseVars>>

\* sb.execute_script(js_script): both response fields and the callback
Inject ==
  /\ pc = "inject"
  /\ ChallengeCall("inject", "inject_token", captcha_data.token, "switch_back")
  /\ UNCHANGED <<procVars, frame, solveVars, parseVars>>

\* sb.switch_to_default_content()
SwitchBack ==
  /\ pc = "switch_back"
  /\ \/ /\ Call("switch_to_default_content", TRUE)
        /\ frame' = "top"
        /\ pc' = "click_input"
        /\ UNCHANGED <<scrapeVars, browser>>
     \/ /\ \E msg \in BrowserErrors :
             Call("switch_to_default_content", FALSE) /\ ChallengeFailure(msg)
        /\ UNCHANGED frame
  /\ UNCHANGED <<procVars, solveVars, parseVars>>

\* a browser call after  # Perform the search
SearchCall(at, op, arg, next) ==
  /\ pc = at
  /\ \/ /\ CallWith(op, arg, TRUE)
        /\ pc' = next
        /\ UNCHANGED <<raised, result, browser>>
     \/ \E msg \in BrowserErrors : CallWith(op, arg, FALSE) /\ Fatal(msg)
  /\ UNCHANGED <<procVars, frame, solveVars, chalErr>>

\* sb.click(search input)
ClickInput ==
  SearchCall("click_input", "click_input", None, "type_number") /\ UNCHANGED parseVars

\* sb.type(search input, file_number)
TypeNumber ==
  SearchCall("type_number", "type_number", file_number, "click_search") /\ UNCHANGED parseVars

\* sb.click('input[id="btnSearch"]')
ClickSearch ==
  SearchCall("click_search", "click_search", None, "click_result") /\ UNCHANGED parseVars

\* sb.click('a[onclick*="GetBusinessSearchResultById"]')
ClickResult ==
  SearchCall("click_result", "click_result", None, "wait_panel") /\ UNCHANGED parseVars

\* sb.wait_for_element_present('div[class="panel-body"]', timeout=10)
WaitPanel ==
  SearchCall("wait_panel", "wait_panel", None, "get_page_source") /\ UNCHANGED parseVars

\* html = sb.get_page_source()
GetPageSource ==
  /\ pc = "get_page_source"
  /\ \/ /\ Call("get_page_source", TRUE)
        /\ page' \in Pages
        /\ pc' = "extract"
        /\ UNCHANGED <<raised, result, browser>>
     \/ /\ \E msg \in BrowserErrors : Call("get_page_source", FALSE) /\ Fatal(msg)
        /\ UNCHANGED page
  /\ UNCHANGED <<procVars, frame, solveVars, chalErr, business_data, parsed>>

IsTruthyAlways(r) ==
  TRUE

\* a dict with keys is truthy, None is not
IsTruthyRecord(r) ==
  r # PyNone

\* business_data = parse_business_information(html) and the if that follows;
\* the import of the parsing library succeeds or raises ImportError
Extract ==
  /\ pc = "extract"
  /\ \E importOk \in BOOLEAN :
       /\ parsed' = IF importOk THEN ParseDocument(page) ELSE PyNone
       /\ IF IsTruthyRecord(parsed')
            THEN /\ result' = parsed'
                 /\ browser' = "closed"
                 /\ pc' = "scrape_returned"
                 /\ UNCHANGED raised
            ELSE Fatal("Failed to parse business information")
  /\ UNCHANGED <<procVars, frame, calls, solveVars, chalErr, page, business_data>>

(***************************************************************************)
(* main.                                                                   *)
(***************************************************************************)
START_MARK == "=== SCRAPED_DATA_JSON_START ==="
END_MARK == "=== SCRAPED_DATA_JSON_END ==="

\* result['metadata']['file_number_searched'] = ...; ['request_id'] = ...
WithRunMetadata(r) ==
  [r EXCEPT !.metadata =
     [k \in (DOMAIN @) \cup {"file_number_searched", "request_id"} |->
        IF k = "file_number_searched" THEN file_number
        ELSE IF k = "request_id" THEN request_id
        ELSE @[k]]]

\* if not API_KEY: sys.exit(1), else the call of scrape_nevada_entity
MainStart ==
  /\ pc = "main"
  /\ IF API_KEY # ""
       THEN pc' = "acquire" /\ UNCHANGED exitCode
       ELSE pc' = "exited" /\ exitCode' = 1
  /\ UNCHANGED <<envApiKey, artifacts, echoed, browserVars, solveVars, scrapeVars, parseVars>>

\* the metadata is completed and the record written with json.dump; an
\* OSError is caught by the except clause of main, which exits with 1
MainSave ==
  /\ pc = "scrape_returned"
  /\ result' = WithRunMetadata(result)
  /\ \/ /\ artifacts' = Append(artifacts, result')
        /\ pc' = "echo"
        /\ UNCHANGED exitCode
     \/ /\ pc' = "exited"
        /\ exitCode' = 1
        /\ UNCHANGED artifacts
  /\ UNCHANGED <<envApiKey, echoed, browserVars, solveVars, chalErr, raised, parseVars>>

\* the record is printed between the markers, then the summary;
\* sys.exit(1) if not success, else main returns
MainEcho ==
  /\ pc = "echo"
  /\ echoed' = echoed \o <<START_MARK, result, END_MARK>>
  /\ exitCode' = IF result.metadata.success THEN 0 ELSE 1
  /\ pc' = "exited"
  /\ UNCHANGED <<envApiKey, artifacts, browserVars, solveVars, scrapeVars, parseVars>>

Next ==
  \/ MainStart
  \/ Acquire
  \/ Navigate
  \/ ProbeSearchInput
  \/ WaitIframe
  \/ SwitchFrame
  \/ ReadSitekey
  \/ SolveSubmit
  \/ SolveLoop
  \/ SolvePoll
  \/ SetUserAgent
  \/ Inject
  \/ SwitchBack
  \/ ClickInput
  \/ TypeNumber
  \/ ClickSearch
  \/ ClickResult
  \/ WaitPanel
  \/ GetPageSource
  \/ Extract
  \/ MainSave
  \/ MainEcho

Spec == Init /\ [][Next]_vars

(***************************************************************************)
(* parse_business_information on its own.  The document is read front to   *)
(* back: page holds the part of it read so far.                            *)
(***************************************************************************)
InitParse ==
  /\ pc = "parse_start"
  /\ envApiKey = None
  /\ InitCommon

DocSize ==
  Len(page.labels) + Len(page.table.rows)

otherVars == <<procVars, browserVars, solveVars, scrapeVars>>

\* from bs4 import BeautifulSoup succeeds and business_data is created, or
\* ImportError is raised and None returned
ParseStart ==
  /\ pc = "parse_start"
  /\ \/ /\ business_data' = NewBusinessData
        /\ pc' = "parse_labels"
        /\ UNCHANGED parsed
     \/ /\ parsed' = PyNone
        /\ pc' = "parse_done"
        /\ UNCHANGED business_data
  /\ UNCHANGED <<page, otherVars>>

\* one iteration of  for label in labels
ReadLabel ==
  /\ pc = "parse_labels"
  /\ DocSize < MaxDocSize
  /\ \E e \in LabelEntries :
       /\ page' = [page EXCEPT !.labels = Append(@, e)]
       /\ business_data' = ProcessLabel(business_data, e)
  /\ UNCHANGED <<pc, parsed, otherVars>>

\* officer_table = soup.find(...), tbody = officer_table.find('tbody');
\* without a table body business_data is returned
FindTable ==
  /\ pc = "parse_labels"
  /\ \E found \in BOOLEAN, tbody \in BOOLEAN :
       /\ found \/ ~tbody
       /\ page' = [page EXCEPT !.table = [found |-> found, tbody |-> tbody, rows |-> <<>>]]
       /\ IF found /\ tbody
            THEN pc' = "parse_rows" /\ UNCHANGED parsed
            ELSE pc' = "parse_done" /\ parsed' = business_data
  /\ UNCHANGED <<business_data, otherVars>>

\* one iteration of  for row in rows
ReadRow ==
  /\ pc = "parse_rows"
  /\ DocSize < MaxDocSize
  /\ \E cells \in Rows :
       /\ page' = [page EXCEPT !.table.rows = Append(@, cells)]
       /\ business_data' = ProcessRow(business_data, cells)
  /\ UNCHANGED <<pc, parsed, otherVars>>

\* return business_data
ParseReturn ==
  /\ pc = "parse_rows"
  /\ parsed' = business_data
  /\ pc' = "parse_done"
  /\ UNCHANGED <<page, business_data, otherVars>>

NextParse ==
  \/ ParseStart
  \/ ReadLabel
  \/ FindTable
  \/ ReadRow
  \/ ParseReturn

SpecParse == InitParse /\ [][NextParse]_vars

(***************************************************************************)
(* Properties of solve_captcha (checked under Spec).                       *)
(***************************************************************************)
ReadyWithToken(resp) ==
  resp.body = "json" /\ resp.hasStatus /\ resp.status = 1 /\ resp.hasRequest

\* C1: when the intake accepted the job and the Nth poll (N <= 120) is the
\* first one reporting ready, after N-1 pending polls, solve_captcha returns
\* that poll's token with its user-agent and response-key hints, after
\* exactly N polls, and polls no more.
C1_ReadyPollReturnsToken ==
  /\ (polls >= 1 /\ ReadyWithToken(lastPoll)) => solveOutcome = "returned"
  /\ solveOutcome = "returned" =>
       /\ ReadyWithToken(lastPoll)
       /\ captcha_data.token = lastPoll.request
       /\ captcha_data.useragent = lastPoll.useragent
       /\ captcha_data.respKey = lastPoll.respKey
       /\ polls = attempts + 1
       /\ polls <= 120
       /\ submits = 1

C1_Witness ==
  /\ solveOutcome = "returned"
  /\ polls = 120
  /\ attempts = 119
  /\ captcha_data = [token |-> "tokB", useragent |-> "UA/1", respKey |-> "rk"]

\* C2: when every poll reports pending, solve_captcha makes exactly 120
\* polls, each preceded by one 1-unit sleep, and then raises the timeout
\* error; it never makes more than 120 polls.
C2_TimeoutAfterAllPolls ==
  /\ polls <= 120
  /\ sleeps = (IF pc = "solve_poll" THEN polls + 1 ELSE polls)
  /\ solveErr = E_Timeout => (polls = 120 /\ sleeps = 120 /\ attempts = 120)
  /\ (attempts = 120 /\ pc # "solve_loop") =>
       (solveOutcome = "raised" /\ solveErr = E_Timeout)

C2_Witness ==
  /\ solveOutcome = "raised"
  /\ solveErr = E_Timeout
  /\ polls = 120
  /\ sleeps = 120

\* C3: when the status flag of the intake response is not success,
\* solve_captcha raises the submission error without polling, and the
\* descriptor is submitted once only.
C3_RejectedSubmissionNeverPolls ==
  /\ submits <= 1
  /\ (submits = 1 /\ intake.body = "json" /\ ~(intake.hasStatus /\ intake.status = 1)) =>
       /\ solveOutcome = "raised"
       /\ solveErr = E_Submit
       /\ polls = 0
       /\ sleeps = 0

C3_Witness ==
  /\ submits = 1
  /\ intake.body = "json"
  /\ intake.hasStatus
  /\ intake.status = 0
  /\ solveErr = E_Submit
  /\ polls = 0

\* C4 (as claimed): every malformed or unexpected poll response counts as
\* pending, so that without a transport error the polling phase fails only
\* by exhausting all 120 attempts.
C4_AsClaimed ==
  (solveOutcome = "raised" /\ polls >= 1 /\ lastPoll.body # "neterror") =>
     (solveErr = E_Timeout /\ polls = 120)

(***************************************************************************)
(* Properties of scrape_nevada_entity (checked under Spec).                *)
(***************************************************************************)
\* C5 (as claimed): the record scrape_nevada_entity returns has either a
\* populated entity_information and success true, or an empty
\* entity_information, success false and an error.
C5_AsClaimed ==
  pc = "scrape_returned" =>
     \/ /\ DOMAIN result.entity_information # {}
        /\ result.metadata.success
     \/ /\ DOMAIN result.entity_information = {}
        /\ ~result.metadata.success
        /\ "error" \in DOMAIN result.metadata

\* C6: a fatal error raised anywhere in the attempt does not reach the
\* caller: the attempt returns a record with empty entity_information,
\* registered_agent and officers, success false and error equal to the
\* description of the error.
C6_FatalErrorBecomesFailedRecord ==
  raised # None =>
     /\ pc \in {"scrape_returned", "echo", "exited"}
     /\ DOMAIN result.entity_information = {}
     /\ DOMAIN result.registered_agent = {}
     /\ result.officers = <<>>
     /\ result.metadata.success = FALSE
     /\ result.metadata.error = raised

C6_Witness ==
  /\ pc = "scrape_returned"
  /\ raised = "Failed to parse business information"
  /\ parsed = PyNone
  /\ result.metadata.error = "Failed to parse business information"

HasCall(op) ==
  \E i \in 1..Len(calls) : calls[i].op = op

\* C7: a failure in challenge detection or solving (no iframe, site key
\* unreadable or empty, solve_captcha raising, a script failing) never ends
\* the attempt: control goes on to the search, whose first action is made.
C7_ChallengeFailureContinuesToSearch ==
  chalErr # None =>
     /\ pc \in {"click_input", "type_number", "click_search", "click_result",
                "wait_panel", "get_page_source", "extract",
                "scrape_returned", "echo", "exited"}
     /\ pc # "click_input" => HasCall("click_input")

C7_Witness ==
  /\ chalErr = E_Timeout
  /\ solveOutcome = "raised"
  /\ HasCall("click_input")
  /\ pc = "exited"
  /\ exitCode = 0

(***************************************************************************)
(* Properties of parse_business_information (checked under SpecParse).     *)
(***************************************************************************)
\* the step reads a label that has a value sibling
ReadsLabel ==
  /\ pc = "parse_labels"
  /\ Len(page'.labels) = Len(page.labels) + 1
  /\ page'.labels[Len(page'.labels)].sibling

LabelRead == LabelText(page'.labels[Len(page'.labels)].label)
ValueRead == PyStr(GetText(page'.labels[Len(page'.labels)].value))

RulesBeforeStatus ==
  { L_EntityName, L_EntityNumber, L_EntityType, L_EntityStatus, L_FormationDate,
    L_NVBusinessID, L_TerminationDate, L_AnnualReport, L_ComplianceHold, L_AgentName }

RulesBeforeBusinessID ==
  { L_EntityName, L_EntityNumber, L_EntityType, L_EntityStatus, L_FormationDate }

MatchesOneOf(rules, text) ==
  \E r \in rules : Contains(r, text)

ReadsStatusLabel ==
  /\ ReadsLabel
  /\ Contains(<<"Status">>, LabelRead)
  /\ ~MatchesOneOf(RulesBeforeStatus, LabelRead)

StatusGoesToAgent ==
  /\ business_data'.registered_agent =
       DictSet(business_data.registered_agent, "status", ValueRead)
  /\ business_data'.entity_information = business_data.entity_information

\* C8 (as claimed): a "Status" label that matches no earlier rule is stored
\* in registered_agent.status when registered_agent.name is recorded, and
\* in entity_information when it is not.
C8_AsClaimed ==
  [][ReadsStatusLabel =>
       IF "name" \in DOMAIN business_data.registered_agent
         THEN StatusGoesToAgent
         ELSE \E k \in DOMAIN business_data'.entity_information :
                business_data'.entity_information[k] = ValueRead]_vars

ReadsBusinessIDLabel ==
  /\ ReadsLabel
  /\ Contains(<<"NV", SP, "Business", SP, "ID">>, LabelRead)
  /\ ~MatchesOneOf(RulesBeforeBusinessID, LabelRead)

\* C9 (as claimed): an "NV Business ID" label is stored in
\* registered_agent.nv_business_id when registered_agent.name is recorded,
\* and in entity_information.nv_business_id otherwise.
C9_AsClaimed ==
  [][ReadsBusinessIDLabel =>
       IF "name" \in DOMAIN business_data.registered_agent
         THEN /\ "nv_business_id" \in DOMAIN business_data'.registered_agent
              /\ business_data'.registered_agent["nv_business_id"] = ValueRead
         ELSE /\ "nv_business_id" \in DOMAIN business_data'.entity_information
              /\ business_data'.entity_information["nv_business_id"] = ValueRead]_vars

\* t is raw without its leading and trailing whitespace
IsStripped(t, raw) ==
  /\ t = <<>> \/ (t[1] # SP /\ t[Len(t)] # SP)
  /\ \E i \in 0..Len(raw) : \E j \in i..Len(raw) :
       /\ SubSeq(raw, i + 1, j) = t
       /\ \A k \in (1..i) \cup ((j + 1)..Len(raw)) : raw[k] = SP

QualifyingRows ==
  { i \in 1..Len(page.table.rows) : Len(page.table.rows[i]) >= 5 }

\* the j-th qualifying row, in document order
NthQualifying(j) ==
  CHOOSE i \in QualifyingRows : Cardinality({k \in QualifyingRows : k <= i}) = j

\* C10: officers are exactly the table-body rows with at least 5 cells, in
\* document order; title, name, address, last_updated and status are the
\* texts of cells 1 to 5; shorter rows are skipped and further cells ignored.
C10_OfficersAreQualifyingRows ==
  (pc \in {"parse_labels", "parse_rows", "parse_done"} /\ business_data # PyNone) =>
     LET officers == business_data.officers
         rows == page.table.rows
     IN /\ Len(officers) = Cardinality(QualifyingRows)
        /\ \A j \in 1..Len(officers) :
             LET cells == rows[NthQualifying(j)]
             IN /\ IsStripped(officers[j].title, cells[1])
                /\ IsStripped(officers[j].name, cells[2])
                /\ IsStripped(officers[j].address, cells[3])
                /\ IsStripped(officers[j].last_updated, cells[4])
                /\ IsStripped(officers[j].status, cells[5])
        /\ pc = "parse_done" => parsed = business_data

C10_Witness ==
  /\ pc = "parse_done"
  /\ Len(page.table.rows) = 2
  /\ Len(page.table.rows[1]) = 4
  /\ Len(page.table.rows[2]) = 6
  /\ Len(parsed.officers) = 1
  /\ parsed.officers[1].status = <<"c5", SP, "x">>

(***************************************************************************)
(* Termination of an attempt.  The single thread of control always takes   *)
(* its next step: every browser wait and every round trip to the solving   *)
(* service returns or raises.                                              *)
(***************************************************************************)
SpecLive == Init /\ [][Next]_vars /\ WF_vars(Next)

\* the states of the orchestrator in the order the attempt visits them
Stage(at) ==
  CASE at = "main" -> 0
    [] at = "acquire" -> 1
    [] at = "navigate" -> 2
    [] at = "probe" -> 3
    [] at \in {"wait_iframe", "switch_frame", "read_sitekey"} -> 4
    [] at \in {"solve_submit", "solve_loop", "solve_poll"} -> 5
    [] at \in {"set_useragent", "inject", "switch_back"} -> 6
    [] at \in {"click_input", "type_number", "click_search", "click_result",
               "wait_panel"} -> 7
    [] at \in {"get_page_source", "extract"} -> 8
    [] at = "scrape_returned" -> 9
    [] at \in {"echo", "exited"} -> 10

\* position inside a stage: it grows with every step that stays in the stage
Within(at) ==
  CASE at \in {"wait_iframe", "set_useragent", "click_input", "get_page_source", "echo"} -> 1
    [] at \in {"switch_frame", "inject", "type_number", "extract", "exited"} -> 2
    [] at \in {"read_sitekey", "switch_back", "click_search"} -> 3
    [] at = "click_result" -> 4
    [] at = "wait_panel" -> 5
    [] at \in {"solve_submit", "solve_loop", "solve_poll"} -> submits + sleeps + polls
    [] OTHER -> 0

\* C18: every attempt reaches the terminal state and returns one record;
\* no step goes back to an earlier state of the attempt, and the steps that
\* stay in a state (the polling loop) are bounded by the 120 attempts.
C18_AttemptTerminates ==
  /\ (pc = "acquire") ~> (pc = "scrape_returned")
  /\ [][ /\ \/ Stage(pc') > Stage(pc)
            \/ Stage(pc') = Stage(pc) /\ Within(pc)' > Within(pc)
         /\ submits + sleeps + polls <= 1 + 2 * 120
         /\ (pc' = "scrape_returned") = (result = PyNone /\ result' # PyNone) ]_vars

C18_Witness ==
  /\ pc = "scrape_returned"
  /\ solveErr = E_Timeout
  /\ polls = 120
  /\ result.metadata.success

(***************************************************************************)
(* The label rules as the specification lists them: label, section and     *)
(* field, whether the rule asks for a recorded agent name, and whether     *)
(* the field is optional (an empty value becomes null).                    *)
(***************************************************************************)
Rule(label, section, key, needsName, optional) ==
  [label |-> label, section |-> section, key |-> key,
   needsName |-> needsName, optional |-> optional]

RuleTable ==
  << Rule(<<"Entity", SP, "Name">>, "entity_information", "entity_name", FALSE, FALSE),
     Rule(<<"Entity", SP, "Number">>, "entity_information", "entity_number", FALSE, FALSE),
     Rule(<<"Entity", SP, "Type">>, "entity_information", "entity_type", FALSE, FALSE),
     Rule(<<"Entity", SP, "Status">>, "entity_information", "entity_status", FALSE, FALSE),
     Rule(<<"Formation", SP, "Date">>, "entity_information", "formation_date", FALSE, FALSE),
     Rule(<<"NV", SP, "Business", SP, "ID">>, "entity_information", "nv_business_id", FALSE, FALSE),
     Rule(<<"Termination", SP, "Date">>, "entity_information", "termination_date", FALSE, TRUE),
     Rule(<<"Annual", SP, "Report", SP, "Due", SP, "Date">>, "entity_information",
          "annual_report_due_date", FALSE, FALSE),
     Rule(<<"Compliance", SP, "Hold">>, "entity_information", "compliance_hold", FALSE, TRUE),
     Rule(<<"Name", SP, "of", SP, "Individual", SP, "or", SP, "Legal", SP, "Entity">>,
          "registered_agent", "name", FALSE, FALSE),
     Rule(<<"Status">>, "registered_agent", "status", TRUE, FALSE),
     Rule(<<"CRA", SP, "Agent", SP, "Entity", SP, "Type">>, "registered_agent",
          "cra_agent_entity_type", FALSE, TRUE),
     Rule(<<"Registered", SP, "Agent", SP, "Type">>, "registered_agent",
          "registered_agent_type", FALSE, FALSE),
     Rule(<<"NV", SP, "Business", SP, "ID">>, "registered_agent", "nv_business_id", TRUE, FALSE),
     Rule(<<"Office", SP, "or", SP, "Position">>, "registered_agent", "office_or_position", FALSE, TRUE),
     Rule(<<"Jurisdiction">>, "registered_agent", "jurisdiction", FALSE, TRUE),
     Rule(<<"Street", SP, "Address">>, "registered_agent", "street_address", FALSE, FALSE),
     Rule(<<"Mailing", SP, "Address">>, "registered_agent", "mailing_address", FALSE, TRUE) >>

Sections == {"entity_information", "registered_agent"}

\* the fields of the record whose content differs after the step
FieldsWritten ==
  UNION { { <<sec, k>> : k \in { k \in DOMAIN business_data'[sec] :
                                  \/ k \notin DOMAIN business_data[sec]
                                  \/ business_data'[sec][k] # business_data[sec][k] } } :
          sec \in Sections }

IsOptionalField(sec, key) ==
  \E i \in 1..Len(RuleTable) :
     RuleTable[i].section = sec /\ RuleTable[i].key = key /\ RuleTable[i].optional

EmptyValueRead == (ValueRead = PyStr(<<>>))

\* C11 (as claimed): a label of an optional field (termination_date,
\* compliance_hold, cra_agent_entity_type, office_or_position, jurisdiction,
\* mailing_address) with an empty value stores null in that field; any other
\* field written from an empty value holds the empty string, and a
\* non-empty value is stored as it is.
C11_AsClaimed ==
  [][ReadsLabel =>
       /\ \A i \in 1..Len(RuleTable) :
            (RuleTable[i].optional /\ LabelRead = RuleTable[i].label /\ EmptyValueRead) =>
               /\ RuleTable[i].key \in DOMAIN business_data'[RuleTable[i].section]
               /\ business_data'[RuleTable[i].section][RuleTable[i].key] = PyNone
       /\ \A f \in FieldsWritten :
            business_data'[f[1]][f[2]] =
              IF EmptyValueRead /\ IsOptionalField(f[1], f[2]) THEN PyNone ELSE ValueRead]_vars

(***************************************************************************)
(* Properties of the rule order (checked under SpecParse).                 *)
(***************************************************************************)
\* the step reads a label, with or without a value sibling
ReadsAnyLabel ==
  /\ pc = "parse_labels"
  /\ Len(page'.labels) = Len(page.labels) + 1

\* the condition of rule i holds for the label read, in the record as it is
\* before the step
RuleHolds(i) ==
  /\ Contains(RuleTable[i].label, LabelRead)
  /\ RuleTable[i].needsName => "name" \in DOMAIN business_data.registered_agent

HoldingRules ==
  { i \in 1..Len(RuleTable) : RuleHolds(i) }

FirstRule ==
  CHOOSE i \in HoldingRules : \A j \in HoldingRules : i <= j

\* the field of the first rule whose condition holds, if there is one
TargetFields ==
  IF HoldingRules = {} THEN {}
  ELSE { <<RuleTable[FirstRule].section, RuleTable[FirstRule].key>> }

\* no field of the record is removed, and the officers and the metadata
\* are as before
NothingRemoved ==
  /\ \A sec \in Sections : DOMAIN business_data[sec] \subseteq DOMAIN business_data'[sec]
  /\ business_data'.officers = business_data.officers
  /\ business_data'.metadata = business_data.metadata

\* C17: each label read writes at most one field, the field of the first
\* rule in the source order whose condition holds for the label, and leaves
\* every other field unchanged; a label without a value sibling or without
\* a holding rule writes nothing; a label whose first holding rule is
\* "Entity Status" sets entity_information.entity_status and leaves
\* registered_agent unchanged, also when registered_agent.name is recorded.
C17_FirstRuleWins ==
  [][ReadsAnyLabel =>
       /\ NothingRemoved
       /\ ~ReadsLabel => business_data' = business_data
       /\ ReadsLabel =>
            /\ FieldsWritten \subseteq TargetFields
            /\ Cardinality(FieldsWritten) <= 1
            /\ \A f \in TargetFields :
                 /\ f[2] \in DOMAIN business_data'[f[1]]
                 /\ \/ business_data'[f[1]][f[2]] \in {ValueRead, PyNone}
                    \/ /\ f = <<"entity_information", "nv_business_id">>
                       /\ f[2] \in DOMAIN business_data[f[1]]
                       /\ business_data'[f[1]][f[2]] = business_data[f[1]][f[2]]
            /\ (HoldingRules # {} /\ RuleTable[FirstRule].key = "entity_status") =>
                 /\ Contains(<<"Entity", SP, "Status">>, LabelRead)
                 /\ business_data'.entity_information =
                      DictSet(business_data.entity_information, "entity_status", ValueRead)
                 /\ business_data'.registered_agent = business_data.registered_agent
            /\ (Contains(<<"Entity", SP, "Status">>, LabelRead)
                  /\ ~MatchesOneOf({L_EntityName, L_EntityNumber, L_EntityType}, LabelRead)) =>
                 TargetFields = {<<"entity_information", "entity_status">>}]_vars

C17_Witness ==
  /\ pc = "parse_done"
  /\ page.labels = <<Entry(L_AgentName, <<"a">>), Entry(L_EntityStatus, <<SP, "b", SP>>)>>
  /\ parsed.registered_agent = [name |-> PyStr(<<"a">>)]
  /\ parsed.entity_information = [entity_status |-> PyStr(<<"b">>)]

\* the labels read so far that the "NV Business ID" rule takes: they have a
\* value sibling, contain the text and match no earlier rule
BusinessIdLabels ==
  { i \in 1..Len(page.labels) :
      /\ page.labels[i].sibling
      /\ Contains(<<"NV", SP, "Business", SP, "ID">>, LabelText(page.labels[i].label))
      /\ ~MatchesOneOf(RulesBeforeBusinessID, LabelText(page.labels[i].label)) }

FirstBusinessIdLabel ==
  CHOOSE i \in BusinessIdLabels : \A j \in BusinessIdLabels : i <= j

\* C20: entity_information.nv_business_id is written once: at every point
\* of the reading it is the value of the first "NV Business ID" label with
\* a value sibling read so far, whatever labels follow it, and it is unset
\* while there has been no such label.
C20_BusinessIdWriteOnce ==
  (pc \in {"parse_labels", "parse_rows", "parse_done"} /\ business_data # PyNone) =>
     IF BusinessIdLabels = {}
       THEN "nv_business_id" \notin DOMAIN business_data.entity_information
       ELSE /\ "nv_business_id" \in DOMAIN business_data.entity_information
            /\ business_data.entity_information["nv_business_id"] =
                 PyStr(GetText(page.labels[FirstBusinessIdLabel].value))

C20_Witness ==
  /\ pc = "parse_done"
  /\ page.labels = <<Entry(L_NVBusinessID, <<"a">>), Entry(L_NVBusinessID, <<SP, "b", SP>>)>>
  /\ parsed.entity_information = [nv_business_id |-> PyStr(<<"a">>)]

(***************************************************************************)
(* Properties of main and of the attempt as a whole (checked under Spec).  *)
(***************************************************************************)
\* the credential is missing: the environment variable is unset or empty
CredentialMissing ==
  envApiKey \in {None, ""}

\* C12 (as claimed): when the credential is missing the process exits with
\* a nonzero code before any attempt starts and writes and echoes nothing;
\* the exit code is nonzero whenever the final record has success false;
\* with the credential present and success true the record is written and
\* echoed between the two markers and the exit code is zero.
C12_AsClaimed ==
  /\ CredentialMissing =>
       /\ pc \in {"main", "exited"}
       /\ pc = "exited" => (exitCode = 1 /\ artifacts = <<>> /\ echoed = <<>>)
  /\ (pc = "exited" /\ ~CredentialMissing) =>
       IF result.metadata.success
         THEN /\ exitCode = 0
              /\ artifacts = <<result>>
              /\ echoed = <<START_MARK, result, END_MARK>>
         ELSE exitCode = 1

Returned == {"scrape_returned", "echo", "exited"}

InsideWith ==
  {"navigate", "probe", "wait_iframe", "switch_frame", "read_sitekey", "solve_submit",
   "solve_loop", "solve_poll", "set_useragent", "inject", "switch_back", "click_input",
   "type_number", "click_search", "click_result", "wait_panel", "get_page_source",
   "extract"}

\* C13: the browser is acquired before the attempt starts and released by
\* the time the attempt returns, on success and on a fatal error in any
\* state; no browser action happens before acquisition or after release.
C13_BrowserScoped ==
  /\ \A i \in 1..Len(calls) : calls[i].browser = "open"
  /\ browser = "none" => calls = <<>>
  /\ pc \in InsideWith => browser = "open"
  /\ pc \in Returned => browser # "open"
  /\ (pc \in Returned /\ calls # <<>>) => browser = "closed"

C13_Witness ==
  /\ pc = "scrape_returned"
  /\ browser = "closed"
  /\ raised \in BrowserErrors
  /\ calls # <<>>
  /\ calls[Len(calls)].op = "wait_panel"
  /\ ~calls[Len(calls)].ok
  /\ solveOutcome = "returned"

CallsOf(op) ==
  { i \in 1..Len(calls) : calls[i].op = op }

OkCall(op) ==
  \E i \in CallsOf(op) : calls[i].ok

FailedCall(op) ==
  \E i \in CallsOf(op) : ~calls[i].ok

\* C14: the solver is invoked at most once per attempt, and only after the
\* probe for the search input failed, the iframe appeared and a non-empty
\* site key was read; when the probe succeeds the search starts without
\* waiting for an iframe, switching frame or calling the solver.
C14_SolverOnlyAfterChallengeFound ==
  /\ submits <= 1
  /\ (submits = 1 \/ pc \in {"solve_submit", "solve_loop", "solve_poll"}) =>
       /\ FailedCall("probe_search_input")
       /\ OkCall("wait_iframe")
       /\ OkCall("switch_to_frame")
       /\ OkCall("get_attribute")
       /\ sitekey \notin {None, ""}
  /\ OkCall("probe_search_input") =>
       /\ submits = 0
       /\ solveOutcome = "none"
       /\ CallsOf("wait_iframe") = {}
       /\ CallsOf("switch_to_frame") = {}
       /\ frame = "top"
       /\ pc \in {"click_input", "type_number", "click_search", "click_result",
                  "wait_panel", "get_page_source", "extract"} \cup Returned

C14_Witness ==
  /\ OkCall("probe_search_input")
  /\ pc = "exited"
  /\ exitCode = 0
  /\ submits = 0

\* C15: the token is injected at most once per attempt and only after
\* solve_captcha returned it; the user-agent override runs only when the
\* solution carries a user agent, and then before the injection; nothing
\* is injected when solve_captcha failed.
C15_InjectionOnlyAfterSolve ==
  /\ Cardinality(CallsOf("inject_token")) <= 1
  /\ Cardinality(CallsOf("set_useragent")) <= 1
  /\ solveOutcome # "returned" =>
       (CallsOf("inject_token") = {} /\ CallsOf("set_useragent") = {})
  /\ solveOutcome = "returned" =>
       /\ \A i \in CallsOf("inject_token") :
            /\ calls[i].arg = captcha_data.token
            /\ calls[i].arg = lastPoll.request
       /\ \A i \in CallsOf("set_useragent") :
            /\ captcha_data.useragent \notin {None, ""}
            /\ calls[i].arg = captcha_data.useragent
            /\ \A j \in CallsOf("inject_token") : i < j
       /\ CallsOf("inject_token") # {} =>
            (captcha_data.useragent \notin {None, ""} => OkCall("set_useragent"))

C15_Witness ==
  /\ pc = "exited"
  /\ \E i \in CallsOf("set_useragent") : \E j \in CallsOf("inject_token") :
       /\ i < j
       /\ calls[i].ok /\ calls[i].arg = "UA/1"
       /\ calls[j].ok /\ calls[j].arg = "tokB"

SearchOps ==
  {"click_input", "type_number", "click_search", "click_result", "wait_panel",
   "get_page_source"}

\* C16: a record with success true is returned only when the search
\* actions completed, the result panel appeared, the page source was
\* captured and the extractor returned a record; a null extractor result
\* gives success false; failures of the challenge block do not matter.
C16_SuccessNeedsSearchAndExtract ==
  (pc \in Returned /\ API_KEY # "") =>
     /\ result # PyNone
     /\ result.metadata.success =>
          /\ \A op \in SearchOps : OkCall(op)
          /\ parsed # PyNone
          /\ raised = None
          /\ result.entity_information = parsed.entity_information
          /\ result.registered_agent = parsed.registered_agent
          /\ result.officers = parsed.officers
     /\ parsed = PyNone => ~result.metadata.success
     /\ (parsed # PyNone /\ raised = None) => result.metadata.success

C16_Witness ==
  /\ pc = "scrape_returned"
  /\ result.metadata.success
  /\ chalErr = E_Submit
  /\ Len(result.officers) = 2

\* C19 (as claimed): whenever the first search click is issued, the
\* execution context of the browser is the top-level document.
C19_AsClaimed ==
  \A i \in CallsOf("click_input") : calls[i].frame = "top"

=============================================================================
